---------------------------- MODULE Spec2Model ----------------------------
(***************************************************************************)
(* A model of the support layer and of the first puzzle solutions of the   *)
(* repository: adventofcode/cc/trim, adventofcode/cc/geometry/pos,         *)
(* runfiles/cc/runfiles and adventofcode/cc/year2022/day01, day02, day23.  *)
(*                                                                         *)
(* Every function of the repository is a one-shot pure function, so each   *)
(* component is a small state machine: Init draws the inputs (and, for     *)
(* runfiles, the environment) from bounded sets, and one action per        *)
(* public function applies it and records what it returned.                *)
(*                                                                         *)
(* Strings are sequences of one-character strings: <<"1", "\n">> is the    *)
(* C++ string "1\n".  Positions inside strings are 0-based, as in C++.     *)
(***************************************************************************)
EXTENDS Integers, Sequences, FiniteSets, TLC

VARIABLES
    trim_pc, s, trimmed,                 \* trim.cc: TrimSpace(s)
    pos_pc, pos_a, pos_b, pos_d,         \* pos.cc: a.Distance(b), a.Distance()
    pos_r, pos_before,                   \* pos.h: a + b, a - b, a += b, a -= b and
                                         \*   the operands before the call
    d1_pc, d1_input, d1_result, d1_oob,  \* day01.cc: Part1(input), Part2(input)
    d2_pc, d2_input, d2_result, d2_rounds, \* day02.cc: Part1(input), Part2(input)
    rf_createOk, rf_createForTestOk,     \* runfiles.cc: whether Runfiles::Create /
                                         \*   Runfiles::CreateForTest succeed
    rf_manifest, rf_fs,                  \* what Rlocation answers; the file system
    rf_op, rf_arg, rf_got,               \* the call made and what it returned
    occupied_, directions_,              \* day23.cc: the fields of Elves
    any_moved, round_no,                 \* what Round returned last; rounds made
    skipped,                             \* the destinations the last Round skipped
    span_pc, spans_, added,              \* day15_shared.cc: the list of SpanSet; the spans added
    join_args, join_result,              \* Span::Joinable: its arguments and result
    d6_pc, d6_input, d6_result,          \* day06.cc: Part1(input), Part2(input)
    d17_pc, d17_input, kRocks,           \* day17.cc: solve(input, part1) and its locals
    tetris, seen_heights, seen_states,
    d17_i, loop_start, loop_end,
    d17_state, d17_result,               \* the last State() taken; what solve returned
    geo_pc, geo_b, geo_limit, geo_max,   \* day19.cc: MaxGeodes(b, limit) and what it returned
    d19_pc, d19_blueprints, d19_result,  \* day19.cc: Part1(input), Part2(input)
    d14_pc, d14_spans, d14_result        \* day14.cc: Part2(input)

trimVars == <<trim_pc, s, trimmed>>
posVars  == <<pos_pc, pos_a, pos_b, pos_d, pos_r, pos_before>>
d1Vars   == <<d1_pc, d1_input, d1_result, d1_oob>>
d2Vars   == <<d2_pc, d2_input, d2_result, d2_rounds>>
rfEnv    == <<rf_createOk, rf_createForTestOk, rf_manifest, rf_fs>>
rfVars   == <<rfEnv, rf_op, rf_arg, rf_got>>
elfVars  == <<occupied_, directions_, any_moved, round_no, skipped>>
spanVars == <<span_pc, spans_, added, join_args, join_result>>
d6Vars   == <<d6_pc, d6_input, d6_result>>
d17Vars  == <<d17_pc, d17_input, kRocks, tetris, seen_heights, seen_states, d17_i, loop_start, loop_end, d17_state, d17_result>>
geoVars  == <<geo_pc, geo_b, geo_limit, geo_max>>
d19Vars  == <<d19_pc, d19_blueprints, d19_result>>
d14Vars  == <<d14_pc, d14_spans, d14_result>>
vars     == <<trimVars, posVars, d1Vars, d2Vars, rfVars, elfVars, spanVars, d6Vars, d17Vars, geoVars, d19Vars, d14Vars>>

(***************************************************************************)
(* Generic helpers.                                                        *)
(***************************************************************************)

\* All sequences over alphabet of length 0..n.
SeqsUpTo(alphabet, n) == UNION {[1..k -> alphabet] : k \in 0..n}

Min(a, b) == IF a < b THEN a ELSE b

(***************************************************************************)
(* adventofcode/cc/trim.cc                                                 *)
(***************************************************************************)

\* Longest string handed to TrimSpace.
MaxTrimLen == 4

TrimAlphabet == {" ", "\n", "a", "b"}

\* absl::string_view::npos; any value that is no position of a string.
Npos == -1

\* static constexpr absl::string_view whitespace = " \n";
whitespace == {" ", "\n"}

\* s.find_first_not_of(set): the first 0-based position whose character is
\* not in set, npos when there is none.
find_first_not_of(str, set) ==
    LET hits == {i \in 1..Len(str) : str[i] \notin set}
    IN  IF hits = {} THEN Npos
        ELSE (CHOOSE i \in hits : \A j \in hits : i <= j) - 1

\* s.find_last_not_of(set): the last such position, npos when there is none.
find_last_not_of(str, set) ==
    LET hits == {i \in 1..Len(str) : str[i] \notin set}
    IN  IF hits = {} THEN Npos
        ELSE (CHOOSE i \in hits : \A j \in hits : i >= j) - 1

\* s.substr(pos, count) for pos <= s.size(): the count characters from pos,
\* clamped to the end of the string.
substr(str, pos, count) ==
    LET rlen == Min(count, Len(str) - pos)
    IN  SubSeq(str, pos + 1, pos + rlen)

\* absl::string_view TrimSpace(absl::string_view s)
TrimSpace(str) ==
    LET start0 == find_first_not_of(str, whitespace)
        start  == IF start0 = Npos THEN 0 ELSE start0
        end0   == find_last_not_of(str, whitespace)
        end    == IF end0 = Npos THEN Len(str) ELSE end0
    IN  substr(str, start, end - start + 1)

TrimIdle == trim_pc = "idle" /\ s = <<>> /\ trimmed = <<>>

TrimInit ==
    /\ trim_pc = "start"
    /\ s \in SeqsUpTo(TrimAlphabet, MaxTrimLen)
    /\ trimmed = <<>>

TrimSpaceCall ==
    /\ trim_pc = "start"
    /\ trimmed' = TrimSpace(s)
    /\ trim_pc' = "done"
    /\ UNCHANGED <<s, posVars, d1Vars, d2Vars, rfVars, elfVars, spanVars, d6Vars, d17Vars, geoVars, d19Vars, d14Vars>>

(***************************************************************************)
(* adventofcode/cc/geometry/pos.{h,cc}                                     *)
(***************************************************************************)

\* Coordinates of the points handed to Distance lie in -MaxCoord..MaxCoord.
MaxCoord == 2

Coords == (0 - MaxCoord)..MaxCoord

\* struct Pos { int64_t x, y; }
Pos == [x : Coords, y : Coords]

\* std::abs on int64_t.
abs(v) == IF v < 0 THEN 0 - v ELSE v

\* A slip: the y term loses its std::abs.
Distance_noabs(p, to) == abs(p.x - to.x) + (p.y - to.y)

\* int64_t Pos::Distance(const Pos& to) const
Distance(p, to) == abs(p.x - to.x) + abs(p.y - to.y)

\* int64_t Pos::Distance() const
Distance0(p) == Distance(p, [x |-> 0, y |-> 0])

\* friend bool operator==(const Pos& lhs, const Pos& rhs)
PosEq(lhs, rhs) == lhs.x = rhs.x /\ lhs.y = rhs.y

PosIdle ==
    /\ pos_pc = "idle"
    /\ pos_a = [x |-> 0, y |-> 0]
    /\ pos_b = [x |-> 0, y |-> 0]
    /\ pos_d = 0
    /\ pos_r = [x |-> 0, y |-> 0]
    /\ pos_before = [a |-> pos_a, b |-> pos_b]

PosInit ==
    /\ pos_pc = "start"
    /\ pos_a \in Pos
    /\ pos_b \in Pos
    /\ pos_d = 0
    /\ pos_r = [x |-> 0, y |-> 0]
    /\ pos_before = [a |-> pos_a, b |-> pos_b]

\* a.Distance(b)
DistanceTo ==
    /\ pos_pc = "start"
    /\ pos_d' = Distance(pos_a, pos_b)
    /\ pos_pc' = "distance_to"
    /\ UNCHANGED <<pos_a, pos_b, pos_r, pos_before, trimVars, d1Vars, d2Vars, rfVars, elfVars, spanVars, d6Vars, d17Vars, geoVars, d19Vars, d14Vars>>

\* a.Distance()
DistanceOrigin ==
    /\ pos_pc = "start"
    /\ pos_d' = Distance0(pos_a)
    /\ pos_pc' = "distance"
    /\ UNCHANGED <<pos_a, pos_b, pos_r, pos_before, trimVars, d1Vars, d2Vars, rfVars, elfVars, spanVars, d6Vars, d17Vars, geoVars, d19Vars, d14Vars>>

\* Pos& operator+=(const Pos& rhs): the value of *this after it.
PlusAssign(p, rhs) == [x |-> p.x + rhs.x, y |-> p.y + rhs.y]

\* friend Pos operator+(Pos lhs, const Pos& rhs): lhs += rhs on the copy.
PosPlus(lhs, rhs) == PlusAssign(lhs, rhs)

\* A slip: y is decreased by rhs.x.
MinusAssign_slip(p, rhs) == [x |-> p.x - rhs.x, y |-> p.y - rhs.x]

\* Pos& operator-=(const Pos& rhs): the value of *this after it.
MinusAssign(p, rhs) == [x |-> p.x - rhs.x, y |-> p.y - rhs.y]

\* friend Pos operator-(Pos lhs, const Pos& rhs): lhs -= rhs on the copy.
PosMinus(lhs, rhs) == MinusAssign(lhs, rhs)

\* a + b
Addition ==
    /\ pos_pc = "start"
    /\ pos_r' = PosPlus(pos_a, pos_b)
    /\ pos_pc' = "plus"
    /\ UNCHANGED <<pos_a, pos_b, pos_d, pos_before, trimVars, d1Vars, d2Vars, rfVars, elfVars, spanVars, d6Vars, d17Vars, geoVars, d19Vars, d14Vars>>

\* a - b
Subtraction ==
    /\ pos_pc = "start"
    /\ pos_r' = PosMinus(pos_a, pos_b)
    /\ pos_pc' = "minus"
    /\ UNCHANGED <<pos_a, pos_b, pos_d, pos_before, trimVars, d1Vars, d2Vars, rfVars, elfVars, spanVars, d6Vars, d17Vars, geoVars, d19Vars, d14Vars>>

\* a += b: a is changed, and the reference to it is returned.
AdditionAssign ==
    /\ pos_pc = "start"
    /\ pos_a' = PlusAssign(pos_a, pos_b)
    /\ pos_r' = pos_a'
    /\ pos_pc' = "plus_assign"
    /\ UNCHANGED <<pos_b, pos_d, pos_before, trimVars, d1Vars, d2Vars, rfVars, elfVars, spanVars, d6Vars, d17Vars, geoVars, d19Vars, d14Vars>>

\* a -= b
SubtractionAssign ==
    /\ pos_pc = "start"
    /\ pos_a' = MinusAssign(pos_a, pos_b)
    /\ pos_r' = pos_a'
    /\ pos_pc' = "minus_assign"
    /\ UNCHANGED <<pos_b, pos_d, pos_before, trimVars, d1Vars, d2Vars, rfVars, elfVars, spanVars, d6Vars, d17Vars, geoVars, d19Vars, d14Vars>>

(***************************************************************************)
(* Strings and numbers: absl::StrSplit, absl::SimpleAtoi, std::to_string.  *)
(***************************************************************************)

\* std::numeric_limits<int>::max()
IntMax == 2147483647

Digits == <<"0", "1", "2", "3", "4", "5", "6", "7", "8", "9">>

IsDigit(c) == \E d \in 1..10 : Digits[d] = c

DigitValue(c) == (CHOOSE d \in 1..10 : Digits[d] = c) - 1

\* absl::StrSplit(text, delim) with a single-character delimiter: the pieces
\* between the delimiters, empty pieces included; at least one piece.
RECURSIVE StrSplitFrom(_, _, _, _)
StrSplitFrom(text, delim, i, piece) ==
    IF i > Len(text) THEN <<piece>>
    ELSE IF text[i] = delim
         THEN <<piece>> \o StrSplitFrom(text, delim, i + 1, <<>>)
         ELSE StrSplitFrom(text, delim, i + 1, Append(piece, text[i]))

StrSplit(text, delim) == StrSplitFrom(text, delim, 1, <<>>)

\* The digits of a non-negative number, most significant first.
RECURSIVE NatToString(_)
NatToString(n) ==
    IF n < 10 THEN <<Digits[n + 1]>>
    ELSE Append(NatToString(n \div 10), Digits[(n % 10) + 1])

\* std::to_string(int)
to_string(n) == IF n < 0 THEN <<"-">> \o NatToString(0 - n) ELSE NatToString(n)

\* The value of a string of digits read left to right, -1 once it is no
\* digit string or exceeds limit (the overflow check of absl's parser).
RECURSIVE ParseDigits(_, _, _)
ParseDigits(str, acc, limit) ==
    IF str = <<>> THEN acc
    ELSE IF ~IsDigit(Head(str)) THEN -1
    ELSE LET d == DigitValue(Head(str))
         IN  IF acc > (limit - d) \div 10 THEN -1
             ELSE ParseDigits(Tail(str), acc * 10 + d, limit)

RECURSIVE StripLeadingSpace(_)
StripLeadingSpace(str) ==
    IF str # <<>> /\ Head(str) = " " THEN StripLeadingSpace(Tail(str)) ELSE str

RECURSIVE StripTrailingSpace(_)
StripTrailingSpace(str) ==
    IF str # <<>> /\ str[Len(str)] = " "
    THEN StripTrailingSpace(SubSeq(str, 1, Len(str) - 1)) ELSE str

\* absl::SimpleAtoi(str, &v) for int: surrounding whitespace is skipped, one
\* sign is allowed, at least one digit is needed, nothing else may follow and
\* the value must fit an int. [ok |-> parsed?, v |-> the value].
SimpleAtoi(str) ==
    LET body     == StripTrailingSpace(StripLeadingSpace(str))
        negative == body # <<>> /\ Head(body) = "-"
        signed   == body # <<>> /\ Head(body) \in {"-", "+"}
        digits   == IF signed THEN Tail(body) ELSE body
        \* (the one value -IntMax - 1 is beyond what the inputs here reach)
        mag      == IF digits = <<>> THEN -1 ELSE ParseDigits(digits, 0, IntMax)
    IN  IF mag < 0 THEN [ok |-> FALSE, v |-> 0]
        ELSE [ok |-> TRUE, v |-> IF negative THEN 0 - mag ELSE mag]

(***************************************************************************)
(* adventofcode/cc/year2022/day01.cc                                       *)
(***************************************************************************)

\* Longest input handed to day01.
MaxD1Len == 9

D1Alphabet == {"1", "\n", "x"}

\* What an int read from memory that holds no element may be.
GarbageInts == {-1, 0, 7}

OkStatus(value) == [code |-> "OK", value |-> value]
ErrorStatus(code) == [code |-> code, value |-> <<>>]

\* The loop of calories over the lines: [ok, sums], the running sum in sum.
RECURSIVE caloriesLoop(_, _, _)
caloriesLoop(lines, sums, sum) ==
    IF lines = <<>> THEN [ok |-> TRUE, sums |-> sums]
    ELSE LET line == Head(lines)
         IN  IF line = <<>>
             THEN caloriesLoop(Tail(lines), Append(sums, sum), 0)
             ELSE LET r == SimpleAtoi(line)
                  IN  IF ~r.ok THEN [ok |-> FALSE, sums |-> <<>>]
                      ELSE caloriesLoop(Tail(lines), sums, sum + r.v)

\* absl::StatusOr<std::vector<int>> calories(absl::string_view input)
calories(input) == caloriesLoop(StrSplit(input, "\n"), <<>>, 0)

\* A slip: std::min_element in place of std::max_element.
MaxElement_min(v) == CHOOSE m \in {v[i] : i \in 1..Len(v)} : \A i \in 1..Len(v) : v[i] >= m

\* *std::max_element(first, last) of a non-empty vector.
MaxElement(v) == CHOOSE m \in {v[i] : i \in 1..Len(v)} : \A i \in 1..Len(v) : v[i] <= m

\* Insertion of x into a descending vector, keeping it descending.
RECURSIVE InsertDescending(_, _)
InsertDescending(v, x) ==
    IF v = <<>> THEN <<x>>
    ELSE IF x >= Head(v) THEN <<x>> \o v
    ELSE <<Head(v)>> \o InsertDescending(Tail(v), x)

\* A slip: the plain iterators, which sort in ascending order.
RECURSIVE SortDescending_ascending(_)
SortDescending_ascending(v) ==
    IF v = <<>> THEN <<>>
    ELSE LET rest == SortDescending_ascending(Tail(v))
             below == SelectSeq(rest, LAMBDA x : x < Head(v))
             above == SelectSeq(rest, LAMBDA x : x >= Head(v))
         IN  below \o <<Head(v)>> \o above

\* std::sort(sums->rbegin(), sums->rend()): the vector in descending order.
RECURSIVE SortDescending(_)
SortDescending(v) ==
    IF v = <<>> THEN <<>> ELSE InsertDescending(SortDescending(Tail(v)), Head(v))

\* What Part1 may return. Dereferencing max_element of an empty vector reads
\* an element that does not exist: the build may crash or read any int.
Part1Outcomes(input) ==
    LET c == calories(input)
    IN  IF ~c.ok THEN {ErrorStatus("InvalidArgument")}
        ELSE IF c.sums = <<>>
             THEN {ErrorStatus("crash")} \cup {OkStatus(to_string(g)) : g \in GarbageInts}
             ELSE {OkStatus(to_string(MaxElement(c.sums)))}

\* Whether Part1 reads an element that does not exist.
Part1ReadsPastEnd(input) ==
    LET c == calories(input) IN c.ok /\ c.sums = <<>>

\* (*sums)[i] for a 0-based i: the element, or any int when there is none.
ElementOrGarbage(v, i) == IF i < Len(v) THEN {v[i + 1]} ELSE GarbageInts

\* What Part2 may return: (*sums)[0] + (*sums)[1] + (*sums)[2] of the sorted
\* vector, each read past the end being a crash or any int.
Part2Outcomes(input) ==
    LET c == calories(input)
    IN  IF ~c.ok THEN {ErrorStatus("InvalidArgument")}
        ELSE LET sorted == SortDescending(c.sums)
                 sumsOf == {x + y + z : x \in ElementOrGarbage(sorted, 0),
                                        y \in ElementOrGarbage(sorted, 1),
                                        z \in ElementOrGarbage(sorted, 2)}
             IN  {OkStatus(to_string(v)) : v \in sumsOf}
                   \cup (IF Len(sorted) < 3 THEN {ErrorStatus("crash")} ELSE {})

\* Whether Part2 reads an element that does not exist.
Part2ReadsPastEnd(input) ==
    LET c == calories(input) IN c.ok /\ Len(c.sums) < 3

D1Idle ==
    /\ d1_pc = "idle"
    /\ d1_input = <<>>
    /\ d1_result = ErrorStatus("none")
    /\ d1_oob = FALSE

D1Init ==
    /\ d1_pc = "start"
    /\ d1_input \in SeqsUpTo(D1Alphabet, MaxD1Len)
    /\ d1_result = ErrorStatus("none")
    /\ d1_oob = FALSE

\* absl::StatusOr<std::string> Part1(absl::string_view input)
Day01Part1 ==
    /\ d1_pc = "start"
    /\ d1_result' \in Part1Outcomes(d1_input)
    /\ d1_oob' = Part1ReadsPastEnd(d1_input)
    /\ d1_pc' = "part1"
    /\ UNCHANGED <<d1_input, trimVars, posVars, d2Vars, rfVars, elfVars, spanVars, d6Vars, d17Vars, geoVars, d19Vars, d14Vars>>

\* absl::StatusOr<std::string> Part2(absl::string_view input)
Day01Part2 ==
    /\ d1_pc = "start"
    /\ d1_result' \in Part2Outcomes(d1_input)
    /\ d1_oob' = Part2ReadsPastEnd(d1_input)
    /\ d1_pc' = "part2"
    /\ UNCHANGED <<d1_input, trimVars, posVars, d2Vars, rfVars, elfVars, spanVars, d6Vars, d17Vars, geoVars, d19Vars, d14Vars>>

(***************************************************************************)
(* adventofcode/cc/year2022/day02.cc                                       *)
(***************************************************************************)

\* Most rounds (lines) of an input handed to day02.
MaxD2Rounds == 2

\* The first and third character of a line; "D" and "W" are invalid.
D2First  == {"A", "B", "C", "D"}
D2Second == {"X", "Y", "Z", "W"}

\* enum Choice::Value
Choice == {"kRock", "kPaper", "kScissors"}

\* Choice Choice::WinsAgainst() const: the choice this one wins against.
WinsAgainst(value) ==
    CASE value = "kRock"     -> "kScissors"
      [] value = "kPaper"    -> "kRock"
      [] value = "kScissors" -> "kPaper"

\* A slip: paper loses against rock.
LosesAgainst_swapped(value) ==
    CASE value = "kRock"     -> "kPaper"
      [] value = "kPaper"    -> "kRock"
      [] value = "kScissors" -> "kRock"

\* Choice Choice::LosesAgainst() const: the choice this one loses against.
LosesAgainst(value) ==
    CASE value = "kRock"     -> "kPaper"
      [] value = "kPaper"    -> "kScissors"
      [] value = "kScissors" -> "kRock"

\* A slip: the test is made on the other choice.
Against_other(value, other) ==
    IF value = other THEN 0
    ELSE IF WinsAgainst(other) = value THEN 1
    ELSE -1

\* int Choice::Against(const Choice& other) const
Against(value, other) ==
    IF value = other THEN 0
    ELSE IF WinsAgainst(value) = other THEN 1
    ELSE -1

\* The first switch of Round::Parse, on line[0].
ParseOpponent(c) ==
    CASE c = "A" -> "kRock"
      [] c = "B" -> "kPaper"
      [] c = "C" -> "kScissors"
      [] OTHER   -> "invalid"

\* The second switch of Round::Parse, on line[2].
ParseMine(c, opponent_choice, part2) ==
    IF ~part2
    THEN CASE c = "X" -> "kRock"
           [] c = "Y" -> "kPaper"
           [] c = "Z" -> "kScissors"
           [] OTHER   -> "invalid"
    ELSE CASE c = "X" -> WinsAgainst(opponent_choice)
           [] c = "Y" -> opponent_choice
           [] c = "Z" -> LosesAgainst(opponent_choice)
           [] OTHER   -> "invalid"

\* static absl::StatusOr<Round> Round::Parse(absl::string_view line, bool part2)
\* for a line of three characters.
RoundParse(line, part2) ==
    LET opponent_choice == ParseOpponent(line[1])
    IN  IF opponent_choice = "invalid"
        THEN [ok |-> FALSE, my_choice |-> "invalid", opponent_choice |-> "invalid"]
        ELSE LET my_choice == ParseMine(line[3], opponent_choice, part2)
             IN  [ok |-> my_choice # "invalid",
                  my_choice |-> my_choice, opponent_choice |-> opponent_choice]

\* int Round::Score() const
Score(r) ==
    LET shape == CASE r.my_choice = "kRock"     -> 1
                   [] r.my_choice = "kPaper"    -> 2
                   [] r.my_choice = "kScissors" -> 3
        a == Against(r.my_choice, r.opponent_choice)
        outcome == CASE a = -1 -> 0
                     [] a = 0  -> 3
                     [] a = 1  -> 6
    IN  shape + outcome

\* The loop of solve over the lines: [ok, score, rounds], where rounds are
\* the rounds parsed and scored so far.
RECURSIVE solveLoop(_, _, _, _)
solveLoop(lines, part2, score, rounds) ==
    IF lines = <<>> \/ Head(lines) = <<>>
    THEN [ok |-> TRUE, score |-> score, rounds |-> rounds]
    ELSE LET round == RoundParse(Head(lines), part2)
         IN  IF ~round.ok
             THEN [ok |-> FALSE, score |-> score, rounds |-> rounds]
             ELSE solveLoop(Tail(lines), part2, score + Score(round),
                            Append(rounds, round))

\* absl::StatusOr<std::string> solve(absl::string_view input, bool part2)
solve(input, part2) == solveLoop(StrSplit(input, "\n"), part2, 0, <<>>)

solveStatus(input, part2) ==
    LET r == solve(input, part2)
    IN  IF r.ok THEN OkStatus(to_string(r.score)) ELSE ErrorStatus("InvalidArgument")

\* The text of a sequence of three-character lines, each ended by a newline.
RECURSIVE JoinLines(_)
JoinLines(lines) ==
    IF lines = <<>> THEN <<>>
    ELSE Head(lines) \o <<"\n">> \o JoinLines(Tail(lines))

D2Lines == {<<a, " ", b>> : a \in D2First, b \in D2Second}

\* The inputs: up to MaxD2Rounds lines, with or without the last newline.
D2Inputs ==
    LET whole == {JoinLines(ls) : ls \in SeqsUpTo(D2Lines, MaxD2Rounds)}
    IN  whole \cup {SubSeq(w, 1, Len(w) - 1) : w \in whole \ {<<>>}}

D2Idle ==
    /\ d2_pc = "idle"
    /\ d2_input = <<>>
    /\ d2_result = ErrorStatus("none")
    /\ d2_rounds = <<>>

D2Init ==
    /\ d2_pc = "start"
    /\ d2_input \in D2Inputs
    /\ d2_result = ErrorStatus("none")
    /\ d2_rounds = <<>>

\* absl::StatusOr<std::string> Part1(absl::string_view input)
Day02Part1 ==
    /\ d2_pc = "start"
    /\ d2_result' = solveStatus(d2_input, FALSE)
    /\ d2_rounds' = solve(d2_input, FALSE).rounds
    /\ d2_pc' = "part1"
    /\ UNCHANGED <<d2_input, trimVars, posVars, d1Vars, rfVars, elfVars, spanVars, d6Vars, d17Vars, geoVars, d19Vars, d14Vars>>

\* absl::StatusOr<std::string> Part2(absl::string_view input)
Day02Part2 ==
    /\ d2_pc = "start"
    /\ d2_result' = solveStatus(d2_input, TRUE)
    /\ d2_rounds' = solve(d2_input, TRUE).rounds
    /\ d2_pc' = "part2"
    /\ UNCHANGED <<d2_input, trimVars, posVars, d1Vars, rfVars, elfVars, spanVars, d6Vars, d17Vars, geoVars, d19Vars, d14Vars>>

(***************************************************************************)
(* runfiles/cc/runfiles.cc                                                 *)
(***************************************************************************)

\* The runfiles asked for.
RunfileNames == {"code/runfiles/test.txt", "code/runfiles/does_not_exist.txt"}

\* The paths Rlocation may answer with; "" is its answer for no path.
RunfilePaths == {"/runfiles/code/runfiles/test.txt", "/runfiles/other"}

\* What may lie at a path: nothing, something that exists and cannot be read
\* as a file, or a file with its contents.
Absent     == [exists |-> FALSE, readable |-> FALSE, contents |-> ""]
Unreadable == [exists |-> TRUE, readable |-> FALSE, contents |-> ""]
FileOf(contents) == [exists |-> TRUE, readable |-> TRUE, contents |-> contents]

FileStates ==
    {Absent, Unreadable, FileOf(""),
     FileOf("This is an example file to be used in tests.\n")}

\* runfiles->Rlocation(std::string(runfile))
Rlocation(runfile) == rf_manifest[runfile]

\* A slip: the path Rlocation answers is returned unchecked.
runfilePath_unchecked(runfile) ==
    LET path == Rlocation(runfile)
    IN  IF path = "" THEN ErrorStatus("NotFound")
        ELSE OkStatus(path)

\* absl::StatusOr<std::string> runfilePath(runfile, runfiles)
runfilePath(runfile) ==
    LET path == Rlocation(runfile)
    IN  IF path = "" THEN ErrorStatus("NotFound")
        ELSE IF ~rf_fs[path].exists THEN ErrorStatus("NotFound")
        ELSE OkStatus(path)

\* absl::StatusOr<std::string> readRunfile(runfile, runfiles)
readRunfile(runfile) ==
    LET path == runfilePath(runfile)
    IN  IF path.code # "OK" THEN path
        ELSE IF ~rf_fs[path.value].readable THEN ErrorStatus("Unknown")
        ELSE OkStatus(rf_fs[path.value].contents)

\* absl::StatusOr<std::string> Path(runfile, argv0)
Path(runfile) ==
    IF ~rf_createOk THEN ErrorStatus("Unknown") ELSE runfilePath(runfile)

\* absl::StatusOr<std::string> Read(runfile, argv0)
Read(runfile) ==
    IF ~rf_createOk THEN ErrorStatus("Unknown") ELSE readRunfile(runfile)

\* absl::StatusOr<std::string> PathForTest(runfile)
PathForTest(runfile) ==
    IF ~rf_createForTestOk THEN ErrorStatus("Internal") ELSE runfilePath(runfile)

\* absl::StatusOr<std::string> ReadForTest(runfile)
ReadForTest(runfile) ==
    IF ~rf_createForTestOk THEN ErrorStatus("Unknown") ELSE readRunfile(runfile)

RfIdle ==
    /\ rf_createOk = TRUE
    /\ rf_createForTestOk = TRUE
    /\ rf_manifest = [r \in RunfileNames |-> ""]
    /\ rf_fs = [q \in RunfilePaths |-> Absent]
    /\ rf_op = "idle"
    /\ rf_arg = ""
    /\ rf_got = ErrorStatus("none")

RfInit ==
    /\ rf_createOk \in BOOLEAN
    /\ rf_createForTestOk \in BOOLEAN
    /\ rf_manifest \in [RunfileNames -> RunfilePaths \cup {""}]
    /\ rf_fs \in [RunfilePaths -> FileStates]
    /\ rf_op = "start"
    /\ rf_arg = ""
    /\ rf_got = ErrorStatus("none")

CallPath ==
    /\ rf_op = "start"
    /\ \E runfile \in RunfileNames :
          /\ rf_arg' = runfile
          /\ rf_got' = Path(runfile)
    /\ rf_op' = "Path"
    /\ UNCHANGED <<rfEnv, trimVars, posVars, d1Vars, d2Vars, elfVars, spanVars, d6Vars, d17Vars, geoVars, d19Vars, d14Vars>>

CallRead ==
    /\ rf_op = "start"
    /\ \E runfile \in RunfileNames :
          /\ rf_arg' = runfile
          /\ rf_got' = Read(runfile)
    /\ rf_op' = "Read"
    /\ UNCHANGED <<rfEnv, trimVars, posVars, d1Vars, d2Vars, elfVars, spanVars, d6Vars, d17Vars, geoVars, d19Vars, d14Vars>>

CallPathForTest ==
    /\ rf_op = "start"
    /\ \E runfile \in RunfileNames :
          /\ rf_arg' = runfile
          /\ rf_got' = PathForTest(runfile)
    /\ rf_op' = "PathForTest"
    /\ UNCHANGED <<rfEnv, trimVars, posVars, d1Vars, d2Vars, elfVars, spanVars, d6Vars, d17Vars, geoVars, d19Vars, d14Vars>>

CallReadForTest ==
    /\ rf_op = "start"
    /\ \E runfile \in RunfileNames :
          /\ rf_arg' = runfile
          /\ rf_got' = ReadForTest(runfile)
    /\ rf_op' = "ReadForTest"
    /\ UNCHANGED <<rfEnv, trimVars, posVars, d1Vars, d2Vars, elfVars, spanVars, d6Vars, d17Vars, geoVars, d19Vars, d14Vars>>

(***************************************************************************)
(* adventofcode/cc/year2022/day23.cc                                       *)
(***************************************************************************)

\* Most Elves of a parsed input, and most rounds made on it.
MaxElves == 4
MaxRounds == 3

\* The cells of the inputs: Parse puts the Elf of column x of line y at
\* Pos{x, y}.
ElfGrid == (0..1) \X (0..3)

ElfPos(x, y) == [x |-> x, y |-> y]

NW == ElfPos(-1, -1)
N  == ElfPos(0, -1)
NE == ElfPos(1, -1)
E  == ElfPos(1, 0)
W  == ElfPos(-1, 0)
SW == ElfPos(-1, 1)
S  == ElfPos(0, 1)
SE == ElfPos(1, 1)

\* The orders in which a hash container holding the set may be iterated.
RECURSIVE IterationOrders(_)
IterationOrders(set) ==
    IF set = {} THEN {<<>>}
    ELSE UNION {{<<x>> \o rest : rest \in IterationOrders(set \ {x})} : x \in set}

\* ProposeNorth / ProposeSouth / ProposeWest / ProposeEast: the cell one step
\* in direction step, unless one of the three cells checked is occupied.
\* [has |-> a value?, dst |-> the value].
ProposeTowards(occ, p, checked, step) ==
    IF \E d \in checked : ElfPos(p.x + d.x, p.y + d.y) \in occ
    THEN [has |-> FALSE, dst |-> p]
    ELSE [has |-> TRUE, dst |-> ElfPos(p.x + step.x, p.y + step.y)]

\* The switch of Round on the direction.
Propose(occ, p, dir) ==
    CASE dir = "N" -> ProposeTowards(occ, p, {NW, N, NE}, N)
      [] dir = "S" -> ProposeTowards(occ, p, {SW, S, SE}, S)
      [] dir = "W" -> ProposeTowards(occ, p, {W, NW, SW}, W)
      [] dir = "E" -> ProposeTowards(occ, p, {E, NE, SE}, E)

\* The vector proposals of one Elf: the proposed cells in the order of dirs.
RECURSIVE Proposals(_, _, _)
Proposals(occ, src, dirs) ==
    IF dirs = <<>> THEN <<>>
    ELSE LET dst == Propose(occ, src, Head(dirs))
         IN  (IF dst.has THEN <<dst.dst>> ELSE <<>>)
               \o Proposals(occ, src, Tail(dirs))

\* The first loop of Round, over the Elves in the order elfOrder: the map
\* moves from a destination to the vector of the sources proposing it.
\* proposalsOf[src] is the vector proposals of the Elf at src; occupied_ does
\* not change during the loop, so it is the same whenever src comes up.
RECURSIVE CollectMoves(_, _, _)
CollectMoves(proposalsOf, elfOrder, moves) ==
    IF elfOrder = <<>> THEN moves
    ELSE LET src       == Head(elfOrder)
             proposals == proposalsOf[src]
             n         == Len(proposals)
             dst       == proposals[1]
         IN  IF n = 0 \/ n = 4
             THEN CollectMoves(proposalsOf, Tail(elfOrder), moves)
             ELSE CollectMoves(proposalsOf, Tail(elfOrder),
                      IF dst \in DOMAIN moves
                      THEN [moves EXCEPT ![dst] = Append(@, src)]
                      ELSE moves @@ (dst :> <<src>>))

\* The empty map.
NoMoves == [dst \in {} |-> <<>>]

\* A slip: a destination several Elves propose is not skipped, and the
\* first of them moves.
ApplyMove_first(state, dst, srcs) ==
    [state EXCEPT !.occ = (@ \ {srcs[1]}) \cup {dst}, !.any_moved = TRUE]

\* The body of the second loop of Round for one entry of moves; skipped
\* records the entries that take the continue.
ApplyMove(state, dst, srcs) ==
    IF Len(srcs) > 1 THEN [state EXCEPT !.skipped = @ \cup {dst}]
    ELSE [state EXCEPT !.occ = (@ \ {srcs[1]}) \cup {dst}, !.any_moved = TRUE]

\* The second loop of Round, over the entries of moves in the order moveOrder.
RECURSIVE ApplyMoves(_, _, _)
ApplyMoves(state, moves, moveOrder) ==
    IF moveOrder = <<>> THEN state
    ELSE ApplyMoves(ApplyMove(state, Head(moveOrder), moves[Head(moveOrder)]),
                    moves, Tail(moveOrder))

\* The maps moves the first loop may build, one per iteration order of
\* occupied_.
MovesMaps(occ, dirs) ==
    LET proposalsOf == [src \in occ |-> Proposals(occ, src, dirs)]
    IN  {CollectMoves(proposalsOf, elfOrder, NoMoves) : elfOrder \in IterationOrders(occ)}

\* What Round may leave in occupied_ and return: one outcome per iteration
\* order of occupied_ and of moves.
RoundOutcomes(occ, dirs) ==
    UNION {{ApplyMoves([occ |-> occ, any_moved |-> FALSE, skipped |-> {}],
                       moves, moveOrder) :
               moveOrder \in IterationOrders(DOMAIN moves)} :
           moves \in MovesMaps(occ, dirs)}

\* The rotation of directions_ that ends Round.
Rotate(dirs) == Append(Tail(dirs), Head(dirs))

ElfIdle ==
    /\ occupied_ = {}
    /\ directions_ = <<>>
    /\ any_moved = FALSE
    /\ round_no = 0
    /\ skipped = {}

\* Elves::Parse: the '#' cells of the input, and Elves(): N, S, W, E.
ElfInit ==
    /\ occupied_ \in {{ElfPos(c[1], c[2]) : c \in cells} :
                         cells \in {cs \in SUBSET ElfGrid : Cardinality(cs) <= MaxElves}}
    /\ directions_ = <<"N", "S", "W", "E">>
    /\ any_moved = FALSE
    /\ round_no = 0
    /\ skipped = {}

\* bool Elves::Round()
Round ==
    /\ directions_ # <<>>
    /\ round_no < MaxRounds
    /\ \E outcome \in RoundOutcomes(occupied_, directions_) :
          /\ occupied_' = outcome.occ
          /\ any_moved' = outcome.any_moved
          /\ skipped' = outcome.skipped
    /\ directions_' = Rotate(directions_)
    /\ round_no' = round_no + 1
    /\ UNCHANGED <<trimVars, posVars, d1Vars, d2Vars, rfVars, spanVars, d6Vars, d17Vars, geoVars, d19Vars, d14Vars>>

(***************************************************************************)
(* day15_shared.cc: Span and SpanSet.                                      *)
(***************************************************************************)

MaxSpanEnd == 7
MaxAdds == 3

Max(a, b) == IF a < b THEN b ELSE a

\* struct Span: the half-open span [from, to) of integers.
Span == {[from |-> f, to |-> t] : f \in 0..MaxSpanEnd, t \in 0..MaxSpanEnd}

\* The spans the callers make: CoveredPositions returns from <= to.
SpanInputs == {sp \in Span : sp.from <= sp.to}

Size(sp) == sp.to - sp.from

Contains(sp, x) == x >= sp.from /\ x < sp.to

\* static bool Span::Joinable(lhs, rhs)
Joinable(lhs, rhs) == ~(Min(lhs.from, rhs.from) > Max(lhs.to, rhs.to))

\* The first loop of Add: the position before which sp is inserted.
RECURSIVE InsertPosition(_, _, _)
InsertPosition(spans, sp, iter) ==
    IF iter > Len(spans) THEN iter
    ELSE IF spans[iter].to < sp.from THEN InsertPosition(spans, sp, iter + 1)
    ELSE iter

\* spans_.insert(iter, sp)
ListInsert(spans, iter, sp) ==
    SubSeq(spans, 1, iter - 1) \o <<sp>> \o SubSeq(spans, iter, Len(spans))

\* The second loop of Add: joins forward from cur.
RECURSIVE JoinForward(_, _)
JoinForward(spans, cur) ==
    IF cur + 1 > Len(spans) THEN spans
    ELSE IF ~Joinable(spans[cur], spans[cur + 1]) THEN spans
    ELSE LET joined == [from |-> Min(spans[cur].from, spans[cur + 1].from),
                        to   |-> Max(spans[cur].to, spans[cur + 1].to)]
         IN  JoinForward(SubSeq(spans, 1, cur - 1) \o <<joined>>
                             \o SubSeq(spans, cur + 2, Len(spans)),
                         cur)

\* void SpanSet::Add(const Span& sp): spans_ after the call.
Add(spans, sp) ==
    IF Size(sp) = 0 THEN spans
    ELSE IF spans = <<>> THEN <<sp>>
    ELSE LET iter == InsertPosition(spans, sp, 1)
         IN  JoinForward(ListInsert(spans, iter, sp), iter)

SpanIdle ==
    /\ span_pc = "idle"
    /\ spans_ = <<>>
    /\ added = <<>>
    /\ join_args = <<>>
    /\ join_result = FALSE

SpanInit ==
    /\ span_pc = "start"
    /\ spans_ = <<>>
    /\ added = <<>>
    /\ join_args = <<>>
    /\ join_result = FALSE

\* Span::Joinable(lhs, rhs) on two non-empty spans.
CallJoinable ==
    /\ span_pc = "start"
    /\ \E lhs \in SpanInputs, rhs \in SpanInputs :
          /\ Size(lhs) > 0 /\ Size(rhs) > 0
          /\ join_args' = <<lhs, rhs>>
          /\ join_result' = Joinable(lhs, rhs)
    /\ span_pc' = "joinable"
    /\ UNCHANGED <<spans_, added, trimVars, posVars, d1Vars, d2Vars, rfVars, elfVars, d6Vars, d17Vars, geoVars, d19Vars, d14Vars>>

\* covered.Add(sp), on a SpanSet that had fewer than MaxAdds calls.
CallAdd ==
    /\ span_pc \in {"start", "add"}
    /\ Len(added) < MaxAdds
    /\ \E sp \in SpanInputs :
          /\ spans_' = Add(spans_, sp)
          /\ added' = Append(added, sp)
    /\ span_pc' = "add"
    /\ UNCHANGED <<join_args, join_result, trimVars, posVars, d1Vars, d2Vars, rfVars, elfVars, d6Vars, d17Vars, geoVars, d19Vars, d14Vars>>

(***************************************************************************)
(* day06.cc: Buffer and solve.                                             *)
(***************************************************************************)

MaxD6Len == 6
Part1Capacity == 4
Part2Capacity == 14
BufLen == 14

D6Letters == {"a", "b", "c", "d", "e"}
D6Long == <<"a", "b", "c", "d", "e", "f", "g", "h", "i", "j", "k", "l", "m", "n", "o", "p">>
Letters == D6Letters \cup {D6Long[i] : i \in 1..Len(D6Long)}
Nul == "NUL"

\* Buffer(capacity): the fields after construction.
Buffer(capacity) ==
    [buf_       |-> [i \in 0..(BufLen - 1) |-> Nul],
     buf_start_ |-> 0,
     capacity_  |-> capacity,
     size_      |-> 0,
     seen_      |-> [c \in Letters |-> 0],
     different_ |-> 0]

\* void Buffer::added(char c)
Buffer_added(b, c) ==
    LET seen == [b.seen_ EXCEPT ![c] = @ + 1]
    IN  [b EXCEPT !.seen_ = seen,
                  !.different_ = IF seen[c] = 1 THEN @ + 1 ELSE @]

\* void Buffer::dropped(char c)
Buffer_dropped(b, c) ==
    LET seen == [b.seen_ EXCEPT ![c] = @ - 1]
    IN  [b EXCEPT !.seen_ = seen,
                  !.different_ = IF seen[c] = 0 THEN @ - 1 ELSE @]

\* void Buffer::Push(char c)
Push(b, c) ==
    IF b.size_ < b.capacity_
    THEN Buffer_added([b EXCEPT !.buf_[b.size_] = c, !.size_ = @ + 1], c)
    ELSE LET buf_end == b.buf_start_
             start   == IF b.buf_start_ + 1 = b.size_ THEN 0 ELSE b.buf_start_ + 1
             b1      == Buffer_dropped([b EXCEPT !.buf_start_ = start], b.buf_[buf_end])
         IN  Buffer_added([b1 EXCEPT !.buf_[buf_end] = c], c)

Different(b) == b.different_

\* The loop of solve from index i (0-based) on, with the buffer buf.
RECURSIVE day06_loop(_, _, _, _)
day06_loop(input, capacity, buf, i) ==
    IF i >= Len(input) THEN ErrorStatus("INTERNAL: no answer found")
    ELSE LET pushed == Push(buf, input[i + 1])
         IN  IF i >= capacity /\ Different(pushed) = capacity
             THEN OkStatus(to_string(i + 1))
             ELSE day06_loop(input, capacity, pushed, i + 1)

\* absl::StatusOr<std::string> solve(absl::string_view input, bool part1),
\* for a non-empty input (input.back() of an empty view is not defined).
day06_solve(input, part1) ==
    LET cropped  == IF input[Len(input)] = "\n"
                    THEN SubSeq(input, 1, Len(input) - 1) ELSE input
        capacity == IF part1 THEN Part1Capacity ELSE Part2Capacity
    IN  day06_loop(cropped, capacity, Buffer(capacity), 0)

\* The inputs: every string of at most MaxD6Len of the letters a..e, and the
\* long ones: up to two letters, then a run of a..p in which at most one
\* letter is replaced by "a"; each with and without the final newline.
D6LongInputs ==
    {pre \o [i \in 1..n |-> IF i = r THEN "a" ELSE D6Long[i]] :
        pre \in SeqsUpTo({"a", "b"}, 2),
        n \in (Part2Capacity - 1)..Len(D6Long),
        r \in 0..Len(D6Long)}

D6Inputs ==
    LET texts == (SeqsUpTo(D6Letters, MaxD6Len) \ {<<>>}) \cup D6LongInputs
    IN  texts \cup {t \o <<"\n">> : t \in texts}

D6Idle == d6_pc = "idle" /\ d6_input = <<>> /\ d6_result = [code |-> "none", value |-> <<>>]

D6Init ==
    /\ d6_pc = "start"
    /\ d6_input \in D6Inputs
    /\ d6_result = [code |-> "none", value |-> <<>>]

Day06Part1 ==
    /\ d6_pc = "start"
    /\ d6_result' = day06_solve(d6_input, TRUE)
    /\ d6_pc' = "part1"
    /\ UNCHANGED <<d6_input, trimVars, posVars, d1Vars, d2Vars, rfVars, elfVars, spanVars, d17Vars, geoVars, d19Vars, d14Vars>>

Day06Part2 ==
    /\ d6_pc = "start"
    /\ d6_result' = day06_solve(d6_input, FALSE)
    /\ d6_pc' = "part2"
    /\ UNCHANGED <<d6_input, trimVars, posVars, d1Vars, d2Vars, rfVars, elfVars, spanVars, d17Vars, geoVars, d19Vars, d14Vars>>

(***************************************************************************)
(* day17.cc: Tetris and solve.  A uint32_t is modelled by its four bytes,  *)
(* least significant first (one byte per row of a shape); a uint8_t by a   *)
(* number in 0..255.                                                       *)
(***************************************************************************)

MaxJets == 6
MaxRocks == 6

\* a & b on uint8_t, bit by bit from the lowest.
RECURSIVE ByteAnd(_, _)
ByteAnd(a, b) ==
    IF a = 0 \/ b = 0 THEN 0
    ELSE (a % 2) * (b % 2) + 2 * ByteAnd(a \div 2, b \div 2)

\* a | b on uint8_t
ByteOr(a, b) == a + b - ByteAnd(a, b)

\* (a & b) == 0 on uint32_t
And32IsZero(a, b) == \A k \in 1..4 : ByteAnd(a[k], b[k]) = 0

\* rock << 1 and rock >> 1 on uint32_t
ShiftLeft32(r) ==
    [k \in 1..4 |-> ((r[k] * 2) % 256) + (IF k > 1 THEN r[k - 1] \div 128 ELSE 0)]
ShiftRight32(r) ==
    [k \in 1..4 |-> (r[k] \div 2) + (IF k < 4 THEN (r[k + 1] % 2) * 128 ELSE 0)]

kBar == <<30, 0, 0, 0>>
kCross == <<8, 28, 8, 0>>
kCorner == <<28, 4, 4, 0>>
kPole == <<16, 16, 16, 16>>
kBox == <<24, 24, 0, 0>>
kRightEdge == <<1, 1, 1, 1>>
kLeftEdge == <<64, 64, 64, 64>>
kShapeCount == 5
kTowerWidth == 7
kShapeRotation == <<kBar, kCross, kCorner, kPole, kBox>>

\* uint8_t Subshape(uint32_t rock, size_t offset)
Subshape(rock, offset) == rock[offset + 1]

\* Tetris(input): input_, next_shape_, next_jet_push_, tower_ (tower_[row] is
\* tower_[row + 1] here).
Tetris(input) ==
    [input_ |-> input, next_shape_ |-> 0, next_jet_push_ |-> 0, tower_ |-> <<>>]

TowerHeight(t) == Len(t.tower_)

\* uint32_t Tetris::RockMask(size_t bottom)
RockMask(tower, bottom) ==
    [k \in 1..4 |-> IF bottom + k - 1 < Len(tower) THEN tower[bottom + k] ELSE 0]

\* tower_.resize(n) when n is larger than the size
Resize(tower, n) == tower \o [k \in 1..(n - Len(tower)) |-> 0]

\* void Tetris::PutToRest(uint32_t shape, size_t bottom), from offset on.
RECURSIVE PutToRestFrom(_, _, _, _)
PutToRestFrom(tower, shape, bottom, offset) ==
    IF offset >= 4 \/ Subshape(shape, offset) = 0 THEN tower
    ELSE LET row   == bottom + offset
             sized == IF row >= Len(tower) THEN Resize(tower, row + 1) ELSE tower
         IN  PutToRestFrom(
                 [sized EXCEPT ![row + 1] = ByteOr(@, Subshape(shape, offset))],
                 shape, bottom, offset + 1)

PutToRest(tower, shape, bottom) == PutToRestFrom(tower, shape, bottom, 0)

\* The while loop of DropRock: the Tetris when the rock has come to rest.
RECURSIVE DropLoop(_, _, _)
DropLoop(t, rock, bottom) ==
    LET push_left == t.input_[t.next_jet_push_ + 1] = "<"
        edge_mask == IF push_left THEN kLeftEdge ELSE kRightEdge
        rock_mask == RockMask(t.tower_, bottom)
        shifted   == IF push_left THEN ShiftLeft32(rock) ELSE ShiftRight32(rock)
        moved     == IF And32IsZero(rock, edge_mask) /\ And32IsZero(shifted, rock_mask)
                     THEN shifted ELSE rock
        t1        == [t EXCEPT !.next_jet_push_ = (@ + 1) % Len(t.input_)]
    IN  IF bottom = 0 \/ ~And32IsZero(moved, RockMask(t.tower_, bottom - 1))
        THEN [t1 EXCEPT !.tower_ = PutToRest(@, moved, bottom)]
        ELSE DropLoop(t1, moved, bottom - 1)

\* void Tetris::DropRock()
DropRock(t) ==
    DropLoop([t EXCEPT !.next_shape_ = (@ + 1) % kShapeCount],
             kShapeRotation[t.next_shape_ + 1],
             Len(t.tower_) + 3)

\* What an uninitialised field of a StateKey can hold.
GarbageTop8 == {0, 1}
GarbageHeights == {0, 5}

Columns == 0..(kTowerWidth - 1)

\* The loop of State() over the rows from the top one down: the columns seen
\* and the heights recorded.
RECURSIVE StateLoop(_, _, _, _)
StateLoop(row, seen, height, profile) ==
    IF row = 0 THEN [seen |-> seen, profile |-> profile]
    ELSE LET recorded == [c \in Columns |-> IF c \in seen THEN profile[c] ELSE height]
             seenAll  == seen \cup Columns
         IN  IF seenAll = Columns
             THEN [seen |-> seenAll, profile |-> recorded]
             ELSE StateLoop(row - 1, seenAll, height - 1, recorded)

\* StateKey Tetris::State(): `StateKey k;` leaves every field uninitialised
\* (top8 and heights are what tower_top8 and height_profile hold then);
\* assigned and assigned_columns list the fields and the elements of
\* height_profile that State() has written.
State(t, top8, heights) ==
    LET loop == StateLoop(Len(t.tower_), {}, Len(t.tower_), [c \in Columns |-> heights])
    IN  [next_shape     |-> t.next_shape_,
         next_jet_push  |-> t.next_jet_push_,
         tower_top8     |-> top8,
         height_profile |-> loop.profile,
         assigned       |-> {"next_shape", "next_jet_push"},
         assigned_columns |-> loop.seen]

\* friend bool operator==(const StateKey& lhs, const StateKey& rhs)
StateKeyEq(lhs, rhs) ==
    /\ lhs.next_shape = rhs.next_shape
    /\ lhs.next_jet_push = rhs.next_jet_push
    /\ lhs.tower_top8 = rhs.tower_top8

\* The fields operator== reads.
ComparedFields == {"next_shape", "next_jet_push", "tower_top8"}

\* AbslHashValue(h, k): what is combined into the hash.
AbslHashValue(k) == <<k.next_shape, k.next_jet_push, k.height_profile>>

\* seen_states.end()
NotFound ==
    [key |-> [next_shape |-> 0, next_jet_push |-> 0, tower_top8 |-> 0,
              height_profile |-> [c \in Columns |-> 0],
              assigned |-> {}, assigned_columns |-> {}],
     val |-> -1]

\* seen_states.find(state): an entry whose key is == to state and has its
\* hash is found; one whose key is == to state but hashes differently may be
\* found or missed (flat_hash_map requires equal keys to hash equally).
FindOutcomes(states, state) ==
    LET equal == {e \in states : StateKeyEq(e.key, state)}
        sure  == {e \in equal : AbslHashValue(e.key) = AbslHashValue(state)}
    IN  IF sure # {} THEN equal ELSE equal \cup {NotFound}

D17Inputs == {jets \o <<"\n">> : jets \in SeqsUpTo({"<", ">"}, MaxJets) \ {<<>>}}

D17Idle ==
    /\ d17_pc = "idle"
    /\ d17_input = <<>>
    /\ kRocks = 0
    /\ tetris = Tetris(<<>>)
    /\ seen_heights = <<>>
    /\ seen_states = {}
    /\ d17_i = 0
    /\ loop_start = 0
    /\ loop_end = 0
    /\ d17_state = NotFound
    /\ d17_result = [code |-> "none", value |-> <<>>]

\* solve up to its loop, for an input of jets and a number of rocks.
D17Init ==
    /\ d17_pc = "loop"
    /\ d17_input \in D17Inputs
    /\ kRocks \in 1..MaxRocks
    /\ tetris = Tetris(TrimSpace(d17_input))
    /\ seen_heights = <<TowerHeight(tetris)>>
    /\ \E top8 \in GarbageTop8, heights \in GarbageHeights :
          /\ d17_state = [key |-> State(tetris, top8, heights), val |-> 0]
          /\ seen_states = {d17_state}
    /\ d17_i = 1
    /\ loop_start = 0
    /\ loop_end = 0
    /\ d17_result = [code |-> "none", value |-> <<>>]

\* One iteration of the loop of solve.
D17Iteration ==
    /\ d17_pc = "loop"
    /\ d17_i <= kRocks
    /\ \E t \in {DropRock(tetris)} :
           /\ tetris' = t
           /\ seen_heights' = Append(seen_heights, TowerHeight(t))
           /\ \E top8 \in GarbageTop8, heights \in GarbageHeights :
                \E state \in {State(t, top8, heights)} :
                    /\ d17_state' = [key |-> state, val |-> d17_i]
                    /\ \E it \in FindOutcomes(seen_states, state) :
                          IF it # NotFound
                          THEN /\ loop_start' = it.val
                               /\ loop_end' = d17_i
                               /\ d17_pc' = "after"
                               /\ UNCHANGED <<seen_states, d17_i, geoVars, d19Vars, d14Vars>>
                          ELSE /\ seen_states' = seen_states \cup {d17_state'}
                               /\ d17_i' = d17_i + 1
                               /\ d17_pc' = IF d17_i + 1 <= kRocks THEN "loop" ELSE "after"
                               /\ UNCHANGED <<loop_start, loop_end, geoVars, d19Vars, d14Vars>>
    /\ UNCHANGED <<d17_input, kRocks, d17_result, trimVars, posVars, d1Vars, d2Vars, rfVars, elfVars, spanVars, d6Vars, geoVars, d19Vars, d14Vars>>

\* solve after its loop.
D17Return ==
    /\ d17_pc = "after"
    /\ d17_result' =
          IF loop_start = 0 /\ loop_end = 0
          THEN OkStatus(to_string(seen_heights[Len(seen_heights)]))
          ELSE LET loop_length         == loop_end - loop_start
                   total_steps_in_loop == kRocks - loop_start
                   loop_iterations     == total_steps_in_loop \div loop_length
                   loop_rest           == total_steps_in_loop % loop_length
                   loop_diff           == seen_heights[loop_end + 1] - seen_heights[loop_start + 1]
                   total_height        == loop_iterations * loop_diff
                                              + seen_heights[loop_start + loop_rest + 1]
               IN  OkStatus(to_string(total_height))
    /\ d17_pc' = "done"
    /\ UNCHANGED <<d17_input, kRocks, tetris, seen_heights, seen_states, d17_i,
                   loop_start, loop_end, d17_state, trimVars, posVars, d1Vars, d2Vars, rfVars, elfVars, spanVars, d6Vars, geoVars, d19Vars, d14Vars>>

(***************************************************************************)
(* day19.cc: Blueprint, State and the search MaxGeodes.  The fields are    *)
(* uint8_t: what is stored in them is taken modulo 256.                    *)
(***************************************************************************)

MaxLimit == 8
CostValues == {1, 2}

Uint8(n) == n % 256
Uint16(n) == n % 65536

\* Blueprint::Parse, from the seven numbers of the line on.
Blueprint(id, ore, clay, obsidian, geode) ==
    [id |-> Uint8(id), ore |-> Uint8(ore), clay |-> Uint8(clay),
     obsidian |-> <<Uint8(obsidian[1]), Uint8(obsidian[2])>>,
     geode |-> <<Uint8(geode[1]), Uint8(geode[2])>>,
     max_ore_cost |-> Max(Max(Uint8(ore), Uint8(clay)),
                          Max(Uint8(obsidian[1]), Uint8(geode[1]))),
     max_clay_cost |-> Uint8(obsidian[2]),
     max_obsidian_cost |-> Uint8(geode[2])]

Blueprints ==
    {Blueprint(1, o, c, <<bo, bc>>, <<go, gb>>) :
        o \in CostValues, c \in CostValues, bo \in CostValues,
        bc \in CostValues, go \in CostValues, gb \in CostValues}

\* State s{}; s.ore_robots = 1;
StartState ==
    [minutes |-> 0, ore_robots |-> 1, clay_robots |-> 0, obsidian_robots |-> 0,
     geode_robots |-> 0, ore |-> 0, clay |-> 0, obsidian |-> 0, geodes |-> 0]

CanBuildOreRobot(st, b) == st.ore >= b.ore
CanBuildClayRobot(st, b) == st.ore >= b.clay
CanBuildObsidianRobot(st, b) == st.ore >= b.obsidian[1] /\ st.clay >= b.obsidian[2]
CanBuildGeodeRobot(st, b) == st.ore >= b.geode[1] /\ st.obsidian >= b.geode[2]

BuildOreRobot(st, b) ==
    [st EXCEPT !.ore = Uint8(@ - b.ore), !.ore_robots = Uint8(@ + 1)]
BuildClayRobot(st, b) ==
    [st EXCEPT !.ore = Uint8(@ - b.clay), !.clay_robots = Uint8(@ + 1)]
BuildObsidianRobot(st, b) ==
    [st EXCEPT !.ore = Uint8(@ - b.obsidian[1]), !.clay = Uint8(@ - b.obsidian[2]),
               !.obsidian_robots = Uint8(@ + 1)]
BuildGeodeRobot(st, b) ==
    [st EXCEPT !.ore = Uint8(@ - b.geode[1]), !.obsidian = Uint8(@ - b.geode[2]),
               !.geode_robots = Uint8(@ + 1)]

Step(st) ==
    [st EXCEPT !.minutes = Uint8(@ + 1),
               !.ore = Uint8(@ + st.ore_robots),
               !.clay = Uint8(@ + st.clay_robots),
               !.obsidian = Uint8(@ + st.obsidian_robots),
               !.geodes = Uint8(@ + st.geode_robots)]

\* A bound that leaves out the robots still to be built.
CannotBeat_tight(st, limit, max) ==
    LET remaining == Uint8(limit - st.minutes)
    IN  Uint16(st.geodes + st.geode_robots * remaining) <= max

\* bool State::CannotBeat(uint8_t limit, uint8_t max)
CannotBeat(st, limit, max) ==
    LET remaining   == Uint8(limit - st.minutes)
        upper_bound == Uint16(st.geodes
                              + st.geode_robots * remaining
                              + ((remaining * (remaining - 1)) \div 2))
    IN  upper_bound <= max

\* void MaxGeodes(State, const Blueprint&, limit, uint8_t& max, allowed_ore,
\* allowed_clay, allowed_obsidian): the value of max after the call.
RECURSIVE MaxGeodesFrom(_, _, _, _, _, _, _)
MaxGeodesFrom(st, b, limit, max, allowed_ore, allowed_clay, allowed_obsidian) ==
    IF st.minutes = limit THEN Max(max, st.geodes)
    ELSE IF CannotBeat(st, limit, max) THEN max
    ELSE LET next == Step(st)
         IN  IF CanBuildGeodeRobot(st, b)
             THEN MaxGeodesFrom(BuildGeodeRobot(next, b), b, limit, max, TRUE, TRUE, TRUE)
             ELSE LET build_obsidian == /\ allowed_obsidian
                                        /\ st.obsidian_robots < b.max_obsidian_cost
                                        /\ CanBuildObsidianRobot(st, b)
                      max1 == IF build_obsidian
                              THEN MaxGeodesFrom(BuildObsidianRobot(next, b), b, limit,
                                                 max, TRUE, TRUE, TRUE)
                              ELSE max
                      build_clay == /\ allowed_clay
                                    /\ st.clay_robots < b.max_clay_cost
                                    /\ CanBuildClayRobot(st, b)
                      max2 == IF build_clay
                              THEN MaxGeodesFrom(BuildClayRobot(next, b), b, limit,
                                                 max1, TRUE, TRUE, TRUE)
                              ELSE max1
                      build_ore == /\ allowed_ore
                                   /\ st.ore_robots < b.max_ore_cost
                                   /\ CanBuildOreRobot(st, b)
                      max3 == IF build_ore
                              THEN MaxGeodesFrom(BuildOreRobot(next, b), b, limit,
                                                 max2, TRUE, TRUE, TRUE)
                              ELSE max2
                  IN  MaxGeodesFrom(next, b, limit, max3,
                                    ~build_ore, ~build_clay, ~build_obsidian)

\* uint8_t MaxGeodes(const Blueprint& b, uint8_t limit)
MaxGeodes(b, limit) == MaxGeodesFrom(StartState, b, limit, 0, TRUE, TRUE, TRUE)

GeoIdle == geo_pc = "idle" /\ geo_b = Blueprint(0, 0, 0, <<0, 0>>, <<0, 0>>) /\ geo_limit = 0 /\ geo_max = 0

GeoInit ==
    /\ geo_pc = "start"
    /\ geo_b \in Blueprints
    /\ geo_limit \in 0..MaxLimit
    /\ geo_max = 0

CallMaxGeodes ==
    /\ geo_pc = "start"
    /\ geo_max' = MaxGeodes(geo_b, geo_limit)
    /\ geo_pc' = "done"
    /\ UNCHANGED <<geo_b, geo_limit, trimVars, posVars, d1Vars, d2Vars, rfVars, elfVars, spanVars, d6Vars, d17Vars, d19Vars, d14Vars>>

(***************************************************************************)
(* day19.cc: solve.  A blueprint is given by its id and by what MaxGeodes  *)
(* returns for it with the limit of the part, a uint8_t.                   *)
(***************************************************************************)

MaxBlueprints == 4
IdValues == {1, 255}
GeodeValues == {0, 1, 56, 62, 255}

\* The loop of part 1 from blueprint i on: answer += b.id * MaxGeodes(b, limit)
RECURSIVE Part1Loop(_, _, _)
Part1Loop(blueprints, i, answer) ==
    IF i > Len(blueprints) THEN answer
    ELSE Part1Loop(blueprints, i + 1,
                   Uint16(answer + blueprints[i].id * blueprints[i].geodes))

\* The loop of part 2 from blueprint i on, which ends at cbegin() + 3:
\* answer *= MaxGeodes(*it, limit)
RECURSIVE Part2Loop(_, _, _)
Part2Loop(blueprints, i, answer) ==
    IF i > Len(blueprints) \/ i = 1 + 3 THEN answer
    ELSE Part2Loop(blueprints, i + 1, Uint16(answer * blueprints[i].geodes))

\* absl::StatusOr<std::string> solve(input, part1), from the parsed blueprints on.
day19_solve(blueprints, part1) ==
    IF part1
    THEN OkStatus(to_string(Part1Loop(blueprints, 1, 0)))
    ELSE OkStatus(to_string(Part2Loop(blueprints, 1, 1)))

D19Inputs == SeqsUpTo([id : IdValues, geodes : GeodeValues], MaxBlueprints)

D19Idle == d19_pc = "idle" /\ d19_blueprints = <<>> /\ d19_result = [code |-> "none", value |-> <<>>]

D19Init ==
    /\ d19_pc = "start"
    /\ d19_blueprints \in D19Inputs
    /\ d19_result = [code |-> "none", value |-> <<>>]

Day19Part1 ==
    /\ d19_pc = "start"
    /\ d19_result' = day19_solve(d19_blueprints, TRUE)
    /\ d19_pc' = "part1"
    /\ UNCHANGED <<d19_blueprints, trimVars, posVars, d1Vars, d2Vars, rfVars, elfVars, spanVars, d6Vars, d17Vars, geoVars, d14Vars>>

Day19Part2 ==
    /\ d19_pc = "start"
    /\ d19_result' = day19_solve(d19_blueprints, FALSE)
    /\ d19_pc' = "part2"
    /\ UNCHANGED <<d19_blueprints, trimVars, posVars, d1Vars, d2Vars, rfVars, elfVars, spanVars, d6Vars, d17Vars, geoVars, d14Vars>>

(***************************************************************************)
(* day14.cc: Part2, from the spans that ParseSpans returns for the lines   *)
(* of the input.                                                           *)
(***************************************************************************)

MaxRockDx == 2
MaxRockY == 2
MaxSpans == 2
SourceX == 500

\* int sgn(int val)
sgn(val) == (IF 0 < val THEN 1 ELSE 0) - (IF val < 0 THEN 1 ELSE 0)

\* std::vector<Pos> Span::Positions()
Positions(span) ==
    LET dx == span.to.x - span.from.x
        dy == span.to.y - span.from.y
    IN  <<span.from>>
            \o [i \in 1..abs(dx) |-> [x |-> span.from.x + i * sgn(dx), y |-> span.from.y]]
            \o [i \in 1..abs(dy) |-> [x |-> span.from.x, y |-> span.from.y + i * sgn(dy)]]

\* The first loop of Part2: rocks[p.y].insert(p.x) for every position of
\* every span; a map from y to a set of x is modelled by the set of (x, y).
RocksOf(spans) ==
    UNION {{Positions(spans[k])[i] : i \in 1..Len(Positions(spans[k]))} : k \in 1..Len(spans)}

\* The elements of a btree_set<int> in its order.
RECURSIVE Ascending(_)
Ascending(xs) ==
    IF xs = {} THEN <<>>
    ELSE LET least == CHOOSE x \in xs : \A other \in xs : x <= other
         IN  <<least>> \o Ascending(xs \ {least})

\* unreachable[y]
RowOf(unreachable, y) == {p.x : p \in {q \in unreachable : q.y = y}}

\* The body of the loop over y: what is inserted into unreachable[y + 1].
Below(unreachable, y) ==
    LET xs == Ascending(RowOf(unreachable, y))
    IN  IF Len(xs) < 3 THEN {}
        ELSE {[x |-> xs[i], y |-> y + 1] :
                 i \in {j \in 2..(Len(xs) - 1) :
                           xs[j - 1] = xs[j] - 1 /\ xs[j + 1] = xs[j] + 1}}

\* The loop over y, from y on.
RECURSIVE Unreachable(_, _, _)
Unreachable(unreachable, y, infinite_line_y) ==
    IF ~(y < infinite_line_y - 1) THEN unreachable
    ELSE Unreachable(unreachable \cup Below(unreachable, y), y + 1, infinite_line_y)

\* absl::StatusOr<std::string> Part2(input), for at least one span.
day14_Part2(spans) ==
    LET rocks           == RocksOf(spans)
        ys              == {p.y : p \in rocks}
        infinite_line_y == (CHOOSE y \in ys : \A other \in ys : other <= y) + 2
        first_y         == CHOOSE y \in ys : \A other \in ys : y <= other
        unreachable     == Unreachable(rocks, first_y, infinite_line_y)
    IN  OkStatus(to_string(infinite_line_y * infinite_line_y - Cardinality(unreachable)))

\* The spans of the input: horizontal or vertical, below the line of the
\* source and at most MaxRockDx to its left or right.
RockPoints ==
    {[x |-> x, y |-> y] : x \in (SourceX - MaxRockDx)..(SourceX + MaxRockDx), y \in 1..MaxRockY}

D14Spans ==
    {sp \in [from : RockPoints, to : RockPoints] : sp.from.x = sp.to.x \/ sp.from.y = sp.to.y}

D14Inputs == SeqsUpTo(D14Spans, MaxSpans) \ {<<>>}

D14Idle == d14_pc = "idle" /\ d14_spans = <<>> /\ d14_result = [code |-> "none", value |-> <<>>]

D14Init ==
    /\ d14_pc = "start"
    /\ d14_spans \in D14Inputs
    /\ d14_result = [code |-> "none", value |-> <<>>]

Day14Part2 ==
    /\ d14_pc = "start"
    /\ d14_result' = day14_Part2(d14_spans)
    /\ d14_pc' = "part2"
    /\ UNCHANGED <<d14_spans, trimVars, posVars, d1Vars, d2Vars, rfVars, elfVars, spanVars, d6Vars, d17Vars, geoVars, d19Vars>>

(***************************************************************************)
(* Specifications: one per component, and their union.                     *)
(***************************************************************************)

InitDay23 == ElfInit /\ TrimIdle /\ PosIdle /\ D1Idle /\ D2Idle /\ RfIdle /\ SpanIdle /\ D6Idle /\ D17Idle /\ GeoIdle /\ D19Idle /\ D14Idle
NextDay23 == Round
SpecDay23 == InitDay23 /\ [][NextDay23]_vars

InitRunfiles == RfInit /\ TrimIdle /\ PosIdle /\ D1Idle /\ D2Idle /\ ElfIdle /\ SpanIdle /\ D6Idle /\ D17Idle /\ GeoIdle /\ D19Idle /\ D14Idle
NextRunfiles == CallPath \/ CallRead \/ CallPathForTest \/ CallReadForTest
SpecRunfiles == InitRunfiles /\ [][NextRunfiles]_vars

InitDay02 == D2Init /\ TrimIdle /\ PosIdle /\ D1Idle /\ RfIdle /\ ElfIdle /\ SpanIdle /\ D6Idle /\ D17Idle /\ GeoIdle /\ D19Idle /\ D14Idle
NextDay02 == Day02Part1 \/ Day02Part2
SpecDay02 == InitDay02 /\ [][NextDay02]_vars

InitDay01 == D1Init /\ TrimIdle /\ PosIdle /\ D2Idle /\ RfIdle /\ ElfIdle /\ SpanIdle /\ D6Idle /\ D17Idle /\ GeoIdle /\ D19Idle /\ D14Idle
NextDay01 == Day01Part1 \/ Day01Part2
SpecDay01 == InitDay01 /\ [][NextDay01]_vars

InitTrim == TrimInit /\ PosIdle /\ D1Idle /\ D2Idle /\ RfIdle /\ ElfIdle /\ SpanIdle /\ D6Idle /\ D17Idle /\ GeoIdle /\ D19Idle /\ D14Idle
NextTrim == TrimSpaceCall
SpecTrim == InitTrim /\ [][NextTrim]_vars

InitPos == PosInit /\ TrimIdle /\ D1Idle /\ D2Idle /\ RfIdle /\ ElfIdle /\ SpanIdle /\ D6Idle /\ D17Idle /\ GeoIdle /\ D19Idle /\ D14Idle
NextPos ==
    \/ DistanceTo \/ DistanceOrigin
    \/ Addition \/ Subtraction \/ AdditionAssign \/ SubtractionAssign
SpecPos == InitPos /\ [][NextPos]_vars

InitDay15 == SpanInit /\ D1Idle /\ D2Idle /\ ElfIdle /\ PosIdle /\ RfIdle /\ TrimIdle /\ D6Idle /\ D17Idle /\ GeoIdle /\ D19Idle /\ D14Idle
NextDay15 ==
    CallJoinable \/ CallAdd
SpecDay15 == InitDay15 /\ [][NextDay15]_vars

InitDay06 == D6Init /\ D1Idle /\ D2Idle /\ ElfIdle /\ PosIdle /\ RfIdle /\ SpanIdle /\ TrimIdle /\ D17Idle /\ GeoIdle /\ D19Idle /\ D14Idle
NextDay06 ==
    Day06Part1 \/ Day06Part2
SpecDay06 == InitDay06 /\ [][NextDay06]_vars

InitDay17 == D17Init /\ D1Idle /\ D2Idle /\ D6Idle /\ ElfIdle /\ PosIdle /\ RfIdle /\ SpanIdle /\ TrimIdle /\ GeoIdle /\ D19Idle /\ D14Idle
NextDay17 ==
    D17Iteration \/ D17Return
SpecDay17 == InitDay17 /\ [][NextDay17]_vars

InitDay19Search == GeoInit /\ D17Idle /\ D1Idle /\ D2Idle /\ D6Idle /\ ElfIdle /\ PosIdle /\ RfIdle /\ SpanIdle /\ TrimIdle /\ D19Idle /\ D14Idle
NextDay19Search ==
    CallMaxGeodes
SpecDay19Search == InitDay19Search /\ [][NextDay19Search]_vars

InitDay19 == D19Init /\ D17Idle /\ D1Idle /\ D2Idle /\ D6Idle /\ ElfIdle /\ GeoIdle /\ PosIdle /\ RfIdle /\ SpanIdle /\ TrimIdle /\ D14Idle
NextDay19 ==
    Day19Part1 \/ Day19Part2
SpecDay19 == InitDay19 /\ [][NextDay19]_vars

InitDay14 == D14Init /\ D17Idle /\ D19Idle /\ D1Idle /\ D2Idle /\ D6Idle /\ ElfIdle /\ GeoIdle /\ PosIdle /\ RfIdle /\ SpanIdle /\ TrimIdle
NextDay14 ==
    Day14Part2
SpecDay14 == InitDay14 /\ [][NextDay14]_vars

Init == InitTrim \/ InitPos \/ InitDay01 \/ InitDay02 \/ InitRunfiles \/ InitDay23 \/ InitDay15 \/ InitDay06 \/ InitDay17 \/ InitDay19Search \/ InitDay19 \/ InitDay14
Next == NextTrim \/ NextPos \/ NextDay01 \/ NextDay02 \/ NextRunfiles \/ NextDay23 \/ NextDay15 \/ NextDay06 \/ NextDay17 \/ NextDay19Search \/ NextDay19 \/ NextDay14
Spec == Init /\ [][Next]_vars

(***************************************************************************)
(* C1: TrimSpace                                                           *)
(***************************************************************************)

RECURSIVE DropLeading(_)
DropLeading(str) ==
    IF str # <<>> /\ Head(str) \in whitespace
    THEN DropLeading(Tail(str)) ELSE str

RECURSIVE DropTrailing(_)
DropTrailing(str) ==
    IF str # <<>> /\ str[Len(str)] \in whitespace
    THEN DropTrailing(SubSeq(str, 1, Len(str) - 1)) ELSE str

\* C1: for every string s, TrimSpace(s) is s without its longest prefix and
\* its longest suffix of ' ' and '\n' characters; the result never begins
\* or ends with ' ' or '\n', and a string of only such characters trims to
\* the empty string.
C1_TrimSpaceContract ==
    trim_pc = "done" =>
        /\ trimmed = DropTrailing(DropLeading(s))
        /\ trimmed # <<>> =>
              /\ trimmed[1] \notin whitespace
              /\ trimmed[Len(trimmed)] \notin whitespace
        /\ (\A i \in 1..Len(s) : s[i] \in whitespace) => trimmed = <<>>

(***************************************************************************)
(* C2, C6, C7: day01                                                       *)
(***************************************************************************)

\* The position of the k-th newline of text (1-based).
NewlineAt(text, k) ==
    CHOOSE p \in 1..Len(text) :
        /\ text[p] = "\n"
        /\ Cardinality({q \in 1..p : text[q] = "\n"}) = k

\* The lines of a text that ends with a newline: what lies before the first
\* newline and between two newlines that follow each other.
LinesOf(text) ==
    LET n == Cardinality({q \in 1..Len(text) : text[q] = "\n"})
    IN  [k \in 1..n |->
            SubSeq(text, IF k = 1 THEN 1 ELSE NewlineAt(text, k - 1) + 1,
                         NewlineAt(text, k) - 1)]

EndsWithNewline(text) == text # <<>> /\ text[Len(text)] = "\n"

\* A non-empty string of decimal digits.
IsNatural(line) == line # <<>> /\ \A i \in 1..Len(line) : IsDigit(line[i])

\* An optional sign and a non-empty string of decimal digits.
IsInteger(line) ==
    \/ IsNatural(line)
    \/ Len(line) > 1 /\ line[1] \in {"-", "+"} /\ IsNatural(Tail(line))

RECURSIVE Pow10(_)
Pow10(k) == IF k = 0 THEN 1 ELSE 10 * Pow10(k - 1)

\* The number a string of digits denotes, by place values.
RECURSIVE PlaceValueSum(_, _)
PlaceValueSum(line, i) ==
    IF i > Len(line) THEN 0
    ELSE DigitValue(line[i]) * Pow10(Len(line) - i) + PlaceValueSum(line, i + 1)

NaturalValue(line) == PlaceValueSum(line, 1)

\* A decimal numeral as std::to_string writes a non-negative int.
IsDecimalOf(str, n) ==
    /\ IsNatural(str)
    /\ Len(str) > 1 => str[1] # "0"
    /\ NaturalValue(str) = n

\* The groups of a sequence of lines: the maximal runs <<i, j>> of
\* consecutive non-blank lines.
GroupsOf(lines) ==
    {g \in (1..Len(lines)) \X (1..Len(lines)) :
        /\ g[1] <= g[2]
        /\ \A k \in g[1]..g[2] : lines[k] # <<>>
        /\ g[1] = 1 \/ lines[g[1] - 1] = <<>>
        /\ g[2] = Len(lines) \/ lines[g[2] + 1] = <<>>}

RECURSIVE SumOfLines(_, _, _)
SumOfLines(lines, i, j) ==
    IF i > j THEN 0 ELSE NaturalValue(lines[i]) + SumOfLines(lines, i + 1, j)

GroupSum(lines, g) == SumOfLines(lines, g[1], g[2])

\* The inputs of C6 and C7: every line a non-negative integer or blank, and
\* a trailing newline.
D1WellFormed(text) ==
    /\ EndsWithNewline(text)
    /\ \A k \in 1..Len(LinesOf(text)) :
           LinesOf(text)[k] = <<>> \/ IsNatural(LinesOf(text)[k])

\* C2: for every input, day01 Part1 and Part2 return an answer or an error
\* status; a non-blank line that is no integer yields InvalidArgument, and no
\* input makes them read an element that does not exist.
C2_Day01NeverReadsMissingElement ==
    d1_pc \in {"part1", "part2"} =>
        /\ d1_result.code \in {"OK", "InvalidArgument"}
        /\ ~d1_oob
        /\ (\E k \in 1..Len(StrSplit(d1_input, "\n")) :
               LET line == StrSplit(d1_input, "\n")[k]
               IN  line # <<>> /\ ~IsInteger(line))
             => d1_result.code = "InvalidArgument"

C3_RoundIsDeterministic ==
    directions_ # <<>> =>
        \A o1, o2 \in RoundOutcomes(occupied_, directions_) :
            o1.occ = o2.occ /\ o1.any_moved = o2.any_moved

\* The first round has been made on four Elves: one of them moved, and a
\* destination that two of them proposed was skipped.
C3_Witness ==
    /\ round_no = 1
    /\ any_moved
    /\ skipped # {}
    /\ Cardinality(occupied_) = 4
    /\ directions_ = <<"S", "W", "E", "N">>

(***************************************************************************)
(* C4, C5: runfiles                                                        *)
(***************************************************************************)

\* The runfile does not exist: Rlocation has no path for it, or nothing lies
\* at the path it answers.
RunfileMissing(runfile) ==
    \/ rf_manifest[runfile] = ""
    \/ ~rf_fs[rf_manifest[runfile]].exists

RunfileReadable(runfile) ==
    /\ rf_manifest[runfile] # ""
    /\ rf_fs[rf_manifest[runfile]].readable

\* C4: ReadForTest behaves like PathForTest, and Read like Path, but for
\* returning the contents: whenever the Path variant fails for a runfile and
\* an environment, the Read variant fails with the same status code, also
\* when the runfiles object cannot be created.
C4_ReadFailsLikePath ==
    /\ (rf_op = "ReadForTest" /\ PathForTest(rf_arg).code # "OK") =>
           rf_got.code = PathForTest(rf_arg).code
    /\ (rf_op = "Read" /\ Path(rf_arg).code # "OK") =>
           rf_got.code = Path(rf_arg).code

Beats == {<<"kRock", "kScissors">>, <<"kScissors", "kPaper">>, <<"kPaper", "kRock">>}

ShapeOfOpponent(c) == CASE c = "A" -> "kRock" [] c = "B" -> "kPaper" [] c = "C" -> "kScissors"
ShapeOfMine(c)     == CASE c = "X" -> "kRock" [] c = "Y" -> "kPaper" [] c = "Z" -> "kScissors"

ShapeScore(shape) == CASE shape = "kRock" -> 1 [] shape = "kPaper" -> 2 [] shape = "kScissors" -> 3

OutcomeScore(mine, theirs) ==
    IF <<mine, theirs>> \in Beats THEN 6
    ELSE IF <<theirs, mine>> \in Beats THEN 0
    ELSE 3

\* The lines of an input, whether or not its last line ends with a newline.
D2LinesOf(text) ==
    IF text = <<>> \/ EndsWithNewline(text) THEN LinesOf(text)
    ELSE LinesOf(text \o <<"\n">>)

\* Every line is '<A|B|C> <X|Y|Z>'.
D2WellFormed(text) ==
    \A k \in 1..Len(D2LinesOf(text)) :
        LET line == D2LinesOf(text)[k]
        IN  /\ Len(line) = 3
            /\ line[1] \in {"A", "B", "C"}
            /\ line[2] = " "
            /\ line[3] \in {"X", "Y", "Z"}

RECURSIVE RulesTotal(_, _)
RulesTotal(lines, k) ==
    IF k > Len(lines) THEN 0
    ELSE ShapeScore(ShapeOfMine(lines[k][3]))
           + OutcomeScore(ShapeOfMine(lines[k][3]), ShapeOfOpponent(lines[k][1]))
           + RulesTotal(lines, k + 1)

\* C8: for every input of lines '<A|B|C> <X|Y|Z>', Part1 returns the sum over
\* the rounds of the score of my shape (X rock 1, Y paper 2, Z scissors 3)
\* and of the outcome (0 lost, 3 draw, 6 won) against the opponent's shape
\* (A rock, B paper, C scissors), rock beating scissors, scissors paper and
\* paper rock.
C8_Part1ScoresByTheRules ==
    (d2_pc = "part1" /\ D2WellFormed(d2_input)) =>
        /\ d2_result.code = "OK"
        /\ IsDecimalOf(d2_result.value, RulesTotal(D2LinesOf(d2_input), 1))

\* Part1 has scored two rounds, one won and one lost.
C8_Witness ==
    /\ d2_pc = "part1"
    /\ D2WellFormed(d2_input)
    /\ Len(d2_rounds) = 2
    /\ <<d2_rounds[1].my_choice, d2_rounds[1].opponent_choice>> \in Beats
    /\ <<d2_rounds[2].opponent_choice, d2_rounds[2].my_choice>> \in Beats
    /\ d2_result.code = "OK"

\* C9: in Part2 the shape chosen for me produces the outcome the letter asks
\* for, for every opponent shape: X loses (Against = -1, outcome score 0),
\* Y draws (0, score 3), Z wins (+1, score 6); WinsAgainst and LosesAgainst
\* are inverse of each other and a.Against(b) = -b.Against(a).
C9_Part2ChoosesTheOutcome ==
    /\ d2_pc = "part2" =>
          \A k \in 1..Len(d2_rounds) :
              LET letter == D2LinesOf(d2_input)[k][3]
                  r      == d2_rounds[k]
                  a      == Against(r.my_choice, r.opponent_choice)
                  points == Score(r) - ShapeScore(r.my_choice)
              IN  /\ r.opponent_choice = ShapeOfOpponent(D2LinesOf(d2_input)[k][1])
                  /\ letter = "X" =>
                        /\ <<r.opponent_choice, r.my_choice>> \in Beats
                        /\ a = -1 /\ points = 0
                  /\ letter = "Y" =>
                        /\ r.my_choice = r.opponent_choice
                        /\ a = 0 /\ points = 3
                  /\ letter = "Z" =>
                        /\ <<r.my_choice, r.opponent_choice>> \in Beats
                        /\ a = 1 /\ points = 6
    /\ \A c \in Choice :
          /\ WinsAgainst(LosesAgainst(c)) = c
          /\ LosesAgainst(WinsAgainst(c)) = c
    /\ \A c, d \in Choice : Against(c, d) = 0 - Against(d, c)

\* Part2 has chosen shapes for two rounds, one to be lost and one to be won.
C9_Witness ==
    /\ d2_pc = "part2"
    /\ Len(d2_rounds) = 2
    /\ D2LinesOf(d2_input)[1][3] = "X"
    /\ D2LinesOf(d2_input)[2][3] = "Z"
    /\ d2_rounds[1].opponent_choice # d2_rounds[2].opponent_choice
    /\ d2_result.code = "OK"

(***************************************************************************)
(* C10: Pos::Distance                                                      *)
(***************************************************************************)

\* The absolute value as the larger of a number and its negation.
Magnitude(v) == IF v >= 0 - v THEN v ELSE 0 - v

\* C10: for all Pos a and b with bounded coordinates, a.Distance(b) is the
\* Manhattan distance |a.x - b.x| + |a.y - b.y|, a.Distance() equals
\* a.Distance(Pos{0,0}), Distance is symmetric, and it is 0 exactly when
\* a == b.
C10_DistanceIsManhattan ==
    /\ pos_pc = "distance_to" =>
          /\ pos_d = Magnitude(pos_a.x - pos_b.x) + Magnitude(pos_a.y - pos_b.y)
          /\ pos_d = Distance(pos_b, pos_a)
          /\ (pos_d = 0) <=> PosEq(pos_a, pos_b)
    /\ pos_pc = "distance" =>
          /\ pos_d = Distance(pos_a, [x |-> 0, y |-> 0])
          /\ pos_d = Magnitude(pos_a.x) + Magnitude(pos_a.y)

\* Both calls made on two different points that differ in both coordinates,
\* with the second one below the first.
C10_Witness ==
    /\ pos_pc = "distance_to"
    /\ pos_a.x # pos_b.x
    /\ pos_a.y < pos_b.y
    /\ pos_d > 0

(***************************************************************************)
(* C11: Pos addition and subtraction                                       *)
(***************************************************************************)

\* C11: addition and subtraction of Pos are component-wise: a + b == b + a,
\* (a + b) - b == a, a - b is the component-wise negation of b - a, and
\* a += b and a -= b leave a equal to a + b and a - b, b being unchanged.
C11_PosArithmetic ==
    LET a == pos_before.a
        b == pos_before.b
    IN  /\ pos_pc = "plus" =>
              /\ pos_r.x = a.x + b.x /\ pos_r.y = a.y + b.y
              /\ PosEq(pos_r, PosPlus(b, a))
              /\ PosEq(PosMinus(pos_r, b), a)
              /\ PosEq(pos_a, a) /\ PosEq(pos_b, b)
        /\ pos_pc = "minus" =>
              /\ pos_r.x = a.x - b.x /\ pos_r.y = a.y - b.y
              /\ pos_r.x = 0 - PosMinus(b, a).x
              /\ pos_r.y = 0 - PosMinus(b, a).y
              /\ PosEq(PosPlus(pos_r, b), a)
              /\ PosEq(pos_a, a) /\ PosEq(pos_b, b)
        /\ pos_pc = "plus_assign" =>
              /\ PosEq(pos_a, PosPlus(a, b))
              /\ pos_a.x = a.x + b.x /\ pos_a.y = a.y + b.y
              /\ PosEq(pos_b, b)
        /\ pos_pc = "minus_assign" =>
              /\ PosEq(pos_a, PosMinus(a, b))
              /\ pos_a.x = a.x - b.x /\ pos_a.y = a.y - b.y
              /\ PosEq(pos_b, b)

\* a -= b has been made on points whose four coordinates all differ and are
\* not 0.
C11_Witness ==
    /\ pos_pc = "minus_assign"
    /\ Cardinality({pos_before.a.x, pos_before.a.y, pos_before.b.x, pos_before.b.y, 0}) = 5
    /\ ~PosEq(pos_a, pos_before.a)

(***************************************************************************)
(* C12, C13: SpanSet::Add and Span::Joinable                               *)
(***************************************************************************)

\* The integers of the half-open span.
IntegersOf(sp) == {x \in 0..MaxSpanEnd : sp.from <= x /\ x < sp.to}

\* Two non-empty spans overlap (share an integer) or touch (one ends where
\* the other begins).
OverlapOrTouch(lhs, rhs) ==
    \/ IntegersOf(lhs) \cap IntegersOf(rhs) # {}
    \/ lhs.to = rhs.from
    \/ rhs.to = lhs.from

\* C12: after any sequence of SpanSet::Add calls the stored spans are
\* ascending, pairwise disjoint and non-touching, and an integer is in some
\* stored span exactly when it is in at least one added non-empty span.
C12_SpanSetIsTheUnion ==
    span_pc = "add" =>
        /\ \A i \in 1..Len(spans_) : spans_[i].from < spans_[i].to
        /\ \A i \in 1..(Len(spans_) - 1) : spans_[i].to < spans_[i + 1].from
        /\ \A x \in 0..MaxSpanEnd :
              (\E i \in 1..Len(spans_) : x \in IntegersOf(spans_[i]))
                  <=> (\E k \in 1..Len(added) : x \in IntegersOf(added[k]))

\* C13: Span::Joinable(lhs, rhs) is true exactly when the two non-empty
\* half-open spans overlap or touch.
C13_JoinableIffOverlapOrTouch ==
    span_pc = "joinable" =>
        (join_result <=> OverlapOrTouch(join_args[1], join_args[2]))

(***************************************************************************)
(* C14: day06 solve                                                        *)
(***************************************************************************)

\* The text solve works on: the input without its final newline.
D6Text == IF d6_input # <<>> /\ d6_input[Len(d6_input)] = "\n"
          THEN SubSeq(d6_input, 1, Len(d6_input) - 1) ELSE d6_input

\* The 0-based indices i at which the capacity most recent characters,
\* input[i-capacity+1..i], are pairwise different.
MarkerEnds(text, capacity) ==
    {i \in (capacity - 1)..(Len(text) - 1) :
        \A j \in (i - capacity + 1)..i, k \in (i - capacity + 1)..i :
            j # k => text[j + 1] # text[k + 1]}

D6Capacity == IF d6_pc = "part1" THEN 4 ELSE 14

\* C14: solve returns i + 1 for the smallest 0-based index i whose capacity
\* most recent characters are pairwise different (4 for Part1, 14 for
\* Part2), also when the very first capacity characters are already distinct,
\* and the error "no answer found" exactly when there is no such index.
C14_FirstMarker ==
    d6_pc \in {"part1", "part2"} =>
        LET ends == MarkerEnds(D6Text, D6Capacity)
        IN  IF ends = {}
            THEN d6_result.code = "INTERNAL: no answer found"
            ELSE /\ d6_result.code = "OK"
                 /\ \E i \in ends :
                       /\ \A j \in ends : i <= j
                       /\ IsDecimalOf(d6_result.value, i + 1)

(***************************************************************************)
(* C15, C16: day17 solve and its cycle detector                            *)
(***************************************************************************)

\* The tower after n rocks dropped one by one.
RECURSIVE Simulate(_, _)
Simulate(t, n) == IF n = 0 THEN t ELSE Simulate(DropRock(t), n - 1)

\* C15: solve returns the height of the tower after exactly kRocks rocks:
\* what it extrapolates from the loop it detected,
\* loop_iterations * loop_diff + seen_heights[loop_start + loop_rest], is the
\* height a rock-by-rock simulation reaches.
C15_ExtrapolationIsSimulation ==
    d17_pc = "done" =>
        /\ d17_result.code = "OK"
        /\ IsDecimalOf(d17_result.value,
                       TowerHeight(Simulate(Tetris(TrimSpace(d17_input)), kRocks)))

\* The keys solve has computed so far.
D17Keys == {e.key : e \in seen_states} \cup {d17_state.key}

\* C16: the cycle detector takes two states for the same only when they agree
\* on the next shape, the next jet and the shape of the top of the tower:
\* State() stores height_profile[c] for each of the 7 columns, every field
\* that StateKey equality compares is set by State(), and equal StateKeys
\* have equal hashes.
C16_StateKeyIsSound ==
    d17_pc \in {"loop", "after", "done"} =>
        \A k \in D17Keys :
            /\ \A c \in Columns : c \in k.assigned_columns
            /\ \A f \in ComparedFields : f \in k.assigned
            /\ \A k2 \in D17Keys :
                  StateKeyEq(k, k2) => AbslHashValue(k) = AbslHashValue(k2)

(***************************************************************************)
(* C18: the pruned search of day19                                         *)
(***************************************************************************)

\* What one minute can lead to: the robots collect, and no robot or one robot
\* that was affordable at the start of the minute is built.
AfterOneMinute(st, b) ==
    {Step(st)}
        \cup (IF CanBuildOreRobot(st, b) THEN {BuildOreRobot(Step(st), b)} ELSE {})
        \cup (IF CanBuildClayRobot(st, b) THEN {BuildClayRobot(Step(st), b)} ELSE {})
        \cup (IF CanBuildObsidianRobot(st, b) THEN {BuildObsidianRobot(Step(st), b)} ELSE {})
        \cup (IF CanBuildGeodeRobot(st, b) THEN {BuildGeodeRobot(Step(st), b)} ELSE {})

\* Where the schedules of the given number of minutes can lead from states.
RECURSIVE AfterMinutes(_, _, _)
AfterMinutes(states, b, minutes) ==
    IF minutes = 0 THEN states
    ELSE AfterMinutes(UNION {AfterOneMinute(st, b) : st \in states}, b, minutes - 1)

\* The most geodes any schedule has after limit minutes.
ExhaustiveMax(b, limit) ==
    LET geodes == {st.geodes : st \in AfterMinutes({StartState}, b, limit)}
    IN  CHOOSE g \in geodes : \A h \in geodes : h <= g

RECURSIVE QualitySum(_, _)
QualitySum(blueprints, n) ==
    IF n = 0 THEN 0
    ELSE QualitySum(blueprints, n - 1) + blueprints[n].id * blueprints[n].geodes

RECURSIVE GeodeProduct(_, _)
GeodeProduct(blueprints, n) ==
    IF n = 0 THEN 1
    ELSE GeodeProduct(blueprints, n - 1) * blueprints[n].geodes

\* C17: Part2 returns the decimal string of the exact product of
\* MaxGeodes(b, 32) over the first three blueprints (all of them when there
\* are fewer), whatever the maxima in 0..255 are, and Part1 the exact sum of
\* id * MaxGeodes(b, 24).
C17_ExactSumAndProduct ==
    /\ d19_pc = "part1" =>
          /\ d19_result.code = "OK"
          /\ IsDecimalOf(d19_result.value,
                         QualitySum(d19_blueprints, Len(d19_blueprints)))
    /\ d19_pc = "part2" =>
          /\ d19_result.code = "OK"
          /\ IsDecimalOf(d19_result.value,
                         GeodeProduct(d19_blueprints, Min(3, Len(d19_blueprints))))

(***************************************************************************)
(* C19: day14 Part2 and the simulation                                     *)
(***************************************************************************)

\* Where a unit of sand at p comes to rest, with the floor at floor_y: it
\* falls down, else down and left, else down and right.
RECURSIVE RestsAt(_, _, _)
RestsAt(blocked, floor_y, p) ==
    LET free(q) == q.y < floor_y /\ q \notin blocked
        down    == [x |-> p.x, y |-> p.y + 1]
        left    == [x |-> p.x - 1, y |-> p.y + 1]
        right   == [x |-> p.x + 1, y |-> p.y + 1]
    IN  IF free(down) THEN RestsAt(blocked, floor_y, down)
        ELSE IF free(left) THEN RestsAt(blocked, floor_y, left)
        ELSE IF free(right) THEN RestsAt(blocked, floor_y, right)
        ELSE p

\* The units that come to rest, one by one, until one rests at the source.
RECURSIVE SandUnits(_, _, _)
SandUnits(blocked, floor_y, resting) ==
    LET source == [x |-> 500, y |-> 0]
        rest   == RestsAt(blocked, floor_y, source)
    IN  IF rest = source THEN resting + 1
        ELSE SandUnits(blocked \cup {rest}, floor_y, resting + 1)

\* C19: Part2, the square of infinite_line_y less the positions found
\* unreachable, is the number of units of sand that come to rest when they
\* are dropped one by one onto a floor at (largest rock y) + 2 until one
\* rests at the source (500,0).
C19_Part2IsSimulation ==
    d14_pc = "part2" =>
        LET rocks == RocksOf(d14_spans)
            ys    == {p.y : p \in rocks}
            floor == (CHOOSE y \in ys : \A other \in ys : other <= y) + 2
        IN  /\ d14_result.code = "OK"
            /\ IsDecimalOf(d14_result.value, SandUnits(rocks, floor, 0))

=============================================================================
